---- MODULE Spec2Model ----
(***************************************************************************)
(* A model of the Titanic data-preparation pipeline:                       *)
(*   src/.../data_processing.py     load_data, clean_data, save_data       *)
(*   src/.../feature_engineering.py generate_features, encode_features     *)
(*                                                                         *)
(* A dataset is [cols |-> <<column names>>, rows |-> <<row records>>].     *)
(* A cell is a sequence: <<>> is the missing marker (NaN), <<v>> holds v.  *)
(* Numeric cells hold integers; string cells hold strings.                 *)
(***************************************************************************)
EXTENDS Integers, Sequences, FiniteSets, TLC

VARIABLES
    pc,         \* position of the calling script
    df,         \* the dataset handed to clean_data / generate_features
    cleaned,    \* result of clean_data(df)
    recleaned,  \* result of clean_data on its own output
    dirs,       \* the data directories that exist: a subset of Kinds
    files,      \* the files that exist: <<directory, name>> -> content
    last,       \* the last load_data / save_data call and its outcome
    featured,   \* result of generate_features(df)
    train,      \* the training dataset handed to encode_features
    test,       \* the test dataset handed to encode_features
    encoded     \* result of encode_features(train, test)

cleanVars == <<cleaned, recleaned>>
ioVars == <<dirs, files, last>>
featureVars == <<featured>>
encodeVars == <<train, test, encoded>>
vars == <<pc, df, cleanVars, ioVars, featureVars, encodeVars>>

----------------------------------------------------------------------------
(* Bounds of the model *)

MaxRows == 3

MaxSaveRows == 2

MaxFareRows == 3

MaxTrainRows == 2

MaxTestRows == 2

----------------------------------------------------------------------------
(* Generic helpers *)

Missing == <<>>

EmptyDataset == [cols |-> <<>>, rows |-> <<>>]

\* The values the variables of a stage hold while another stage is examined.
NoResult == [err |-> "unset", df |-> EmptyDataset]

NoCall == [op |-> "none", file_name |-> "", data_type |-> "", df |-> EmptyDataset,
           err |-> "none", where |-> "", made_dir |-> FALSE]

NoEncoding == [err |-> "unset", train |-> EmptyDataset, test |-> EmptyDataset,
               label_encoders |-> <<>>]

IdleClean == cleaned = NoResult /\ recleaned = NoResult

IdleIO == dirs = {} /\ files = <<>> /\ last = NoCall

IdleFeatures == featured = NoResult

IdleEncode == train = EmptyDataset /\ test = EmptyDataset /\ encoded = NoEncoding

isna(c) == c = Missing

Range(s) == {s[i] : i \in DOMAIN s}

Min(S) == CHOOSE m \in S : \A o \in S : m <= o

Max(S) == CHOOSE m \in S : \A o \in S : m >= o

\* Python's ordering of the strings that occur in the model (code point order:
\* upper case before lower case).
SortedStrings ==
    << "A", "Adult", "B", "C", "Child", "High", "Low", "Medium", "Middle",
       "Miss", "Mr", "Mrs", "Rare", "S", "Senior", "T", "Teenager",
       "Very High", "female", "male", "nan", "other" >>

StrRank(s) == CHOOSE i \in DOMAIN SortedStrings : SortedStrings[i] = s

\* The values of column c that are present, in row order.
RECURSIVE dropna(_, _)
dropna(rows, c) ==
    IF rows = <<>> THEN <<>>
    ELSE IF isna(Head(rows)[c]) THEN dropna(Tail(rows), c)
         ELSE <<Head(rows)[c][1]>> \o dropna(Tail(rows), c)

RECURSIVE Insert(_, _)
Insert(x, s) ==
    IF s = <<>> THEN <<x>>
    ELSE IF x <= Head(s) THEN <<x>> \o s
         ELSE <<Head(s)>> \o Insert(x, Tail(s))

RECURSIVE SortInts(_)
SortInts(s) == IF s = <<>> THEN <<>> ELSE Insert(Head(s), SortInts(Tail(s)))

----------------------------------------------------------------------------
(* clean_data *)

\* DataFrame.drop_duplicates(): keep the first occurrence of every row.
drop_duplicates(d) ==
    LET keep == {i \in DOMAIN d.rows : \A j \in 1..(i - 1) : d.rows[j] # d.rows[i]}
        RECURSIVE pick(_)
        pick(i) ==
            IF i > Len(d.rows) THEN <<>>
            ELSE IF i \in keep THEN <<d.rows[i]>> \o pick(i + 1)
                 ELSE pick(i + 1)
    IN  [d EXCEPT !.rows = pick(1)]

\* DataFrame.drop(columns=[c], errors="ignore")
drop_column(d, c) ==
    LET keep == SelectSeq(d.cols, LAMBDA n : n # c)
    IN  [cols |-> keep,
         rows |-> [i \in DOMAIN d.rows |-> [n \in Range(keep) |-> d.rows[i][n]]]]

\* Series.median(): the middle of the sorted present values, the mean of the
\* two middle ones when their number is even, NaN when there is none.
median(rows, c) ==
    LET s == SortInts(dropna(rows, c))
        n == Len(s)
    IN  IF n = 0 THEN Missing
        ELSE IF n % 2 = 1 THEN <<s[(n + 1) \div 2]>>
        ELSE <<(s[n \div 2] + s[n \div 2 + 1]) \div 2>>

\* Series.mode(): the most frequent present values, in sorted order.
\* Variant: the most frequent value met first in row order.
modeFirstSeen(rows, c) ==
    LET v == dropna(rows, c)
        count(x) == Cardinality({i \in DOMAIN v : v[i] = x})
        best == {i \in DOMAIN v : \A j \in DOMAIN v : count(v[i]) >= count(v[j])}
    IN  IF v = <<>> THEN <<>> ELSE <<v[Min(best)]>>

mode(rows, c) ==
    LET v == dropna(rows, c)
        count(x) == Cardinality({i \in DOMAIN v : v[i] = x})
        best == {StrRank(x) : x \in {y \in Range(v) : \A z \in Range(v) : count(y) >= count(z)}}
        RECURSIVE sorted(_)
        sorted(S) == IF S = {} THEN <<>>
                     ELSE <<SortedStrings[Min(S)]>> \o sorted(S \ {Min(S)})
    IN  sorted(best)

\* DataFrame.fillna(dict): a missing cell of a listed column takes the
\* column's fill value; a NaN fill value changes nothing.
fillna(d, strategy) ==
    [d EXCEPT !.rows =
        [i \in DOMAIN d.rows |->
            [n \in Range(d.cols) |->
                IF n \in DOMAIN strategy /\ isna(d.rows[i][n])
                THEN strategy[n] ELSE d.rows[i][n]]]]

\* clean_data(df): [err |-> "none", df |-> cleaned] or the raised error.
\* Variant: clean_data whose imputation strategy lacks Fare.
clean_dataNoFare(d) ==
    LET d1 == drop_duplicates(d)
        d2 == drop_column(d1, "Cabin")
        m == mode(d2.rows, "Embarked")
    IN  IF m = <<>>
        THEN [err |-> "IndexError", df |-> d]
        ELSE [err |-> "none",
              df |-> fillna(d2, [Age |-> median(d2.rows, "Age"),
                                 Embarked |-> <<m[1]>>])]

clean_data(d) ==
    LET d1 == drop_duplicates(d)
        d2 == drop_column(d1, "Cabin")
        m == mode(d2.rows, "Embarked")
    IN  IF m = <<>>
        THEN [err |-> "IndexError", df |-> d]     \* mode().iloc[0] on no value
        ELSE [err |-> "none",
              df |-> fillna(d2, [Age |-> median(d2.rows, "Age"),
                                 Embarked |-> <<m[1]>>,
                                 Fare |-> median(d2.rows, "Fare")])]

----------------------------------------------------------------------------
(* The datasets clean_data is run on *)

AgeCells == {Missing, <<22>>, <<30>>}
EmbarkedCells == {Missing, <<"C">>, <<"S">>}
FareCells == {Missing, <<8>>}
CabinCells == {<<"A">>, <<"B">>}
TicketCells == {Missing, <<"T">>}

\* Rows of a dataset that still has its Cabin column.
RowsWithCabin ==
    {[Age |-> a, Embarked |-> e, Fare |-> <<8>>, Cabin |-> c] :
        a \in AgeCells, e \in EmbarkedCells, c \in CabinCells}

\* Rows of a dataset without Cabin and with one more column, Ticket.
RowsWithTicket ==
    {[Age |-> a, Embarked |-> e, Fare |-> f, Ticket |-> t] :
        a \in {Missing, <<22>>}, e \in {Missing, <<"S">>}, f \in FareCells,
        t \in TicketCells}

InitClean ==
    /\ pc = "loaded"
    /\ IdleIO /\ IdleFeatures /\ IdleEncode
    /\ \E n \in 0..MaxRows :
         \/ \E r \in [1..n -> RowsWithCabin] :
               df = [cols |-> <<"Age", "Embarked", "Fare", "Cabin">>, rows |-> r]
         \/ \E r \in [1..n -> RowsWithTicket] :
               df = [cols |-> <<"Age", "Embarked", "Fare", "Ticket">>, rows |-> r]
    /\ cleaned = NoResult
    /\ recleaned = NoResult

\* df = clean_data(df)
Clean ==
    /\ pc = "loaded"
    /\ cleaned' = clean_data(df)
    /\ pc' = "cleaned"
    /\ UNCHANGED <<df, recleaned, ioVars, featureVars, encodeVars>>

\* clean_data applied to its own output
Reclean ==
    /\ pc = "cleaned"
    /\ cleaned.err = "none"
    /\ recleaned' = clean_data(cleaned.df)
    /\ pc' = "recleaned"
    /\ UNCHANGED <<df, cleaned, ioVars, featureVars, encodeVars>>

NextClean == Clean \/ Reclean

SpecClean == InitClean /\ [][NextClean]_vars

----------------------------------------------------------------------------
(* encode_features *)

categorical_cols == <<"Sex", "Embarked", "Title", "AgeBin", "FareBin">>

\* Series.astype(str), for one cell: the missing marker becomes "nan"
astype_str(cell) == IF isna(cell) THEN "nan" ELSE cell[1]

\* LabelEncoder.fit: classes_ is the sorted distinct values
fit(values) ==
    LET ranks == {StrRank(values[i]) : i \in DOMAIN values}
        RECURSIVE sorted(_)
        sorted(S) == IF S = {} THEN <<>>
                     ELSE <<SortedStrings[Min(S)]>> \o sorted(S \ {Min(S)})
    IN  sorted(ranks)

\* LabelEncoder.transform, for one value of classes_: its index, from 0
\* Variant: codes counted from 1.
transformFromOne(classes_, x) == CHOOSE k \in DOMAIN classes_ : classes_[k] = x

transform(classes_, x) == (CHOOSE k \in DOMAIN classes_ : classes_[k] = x) - 1

\* lambda x: x if x in le.classes_ else le.classes_[0]
\* Variant: the fallback is the last class.
known_or_lastClass(classes_, x) ==
    IF x \in Range(classes_) THEN x ELSE classes_[Len(classes_)]

known_or_first(classes_, x) ==
    IF x \in Range(classes_) THEN x ELSE classes_[1]

\* _encode_column(train, test, column): the two datasets with the column
\* replaced by its codes, and the encoder's classes_; IndexError when a test
\* value has to fall back on the first of no classes.
_encode_column(tr, te, column) ==
    LET classes_ == fit([i \in DOMAIN tr.rows |-> astype_str(tr.rows[i][column])])
        code(x) == <<transform(classes_, x)>>
    IN  IF classes_ = <<>> /\ te.rows # <<>>
        THEN [err |-> "IndexError", train |-> tr, test |-> te, le |-> classes_]
        ELSE [err |-> "none",
              train |-> [tr EXCEPT !.rows = [i \in DOMAIN tr.rows |->
                            [tr.rows[i] EXCEPT ![column] = code(astype_str(@))]]],
              test |-> [te EXCEPT !.rows = [i \in DOMAIN te.rows |->
                            [te.rows[i] EXCEPT ![column] =
                                code(known_or_first(classes_, astype_str(@)))]]],
              le |-> classes_]

\* encode_features(train, test): the columns of categorical_cols encoded one
\* after the other; an error of one column ends the call.
RECURSIVE encode_from(_, _, _, _)
encode_from(k, tr, te, label_encoders) ==
    IF k > Len(categorical_cols)
    THEN [err |-> "none", train |-> tr, test |-> te, label_encoders |-> label_encoders]
    ELSE LET r == _encode_column(tr, te, categorical_cols[k])
         IN  IF r.err # "none"
             THEN [err |-> r.err, train |-> tr, test |-> te,
                   label_encoders |-> label_encoders]
             ELSE encode_from(k + 1, r.train, r.test, Append(label_encoders, r.le))

encode_features(tr, te) == encode_from(1, tr, te, <<>>)

\* The datasets encode_features is run on.
TrainRows ==
    {[Sex |-> s, Embarked |-> e, Title |-> <<"Mr">>, AgeBin |-> <<"Adult">>,
      FareBin |-> <<"Low">>] :
        s \in {<<"female">>, <<"male">>, <<"other">>}, e \in {Missing, <<"S">>}}

\* Test rows carry a title and a missing age bin that no training row has.
TestRows ==
    {[Sex |-> s, Embarked |-> e, Title |-> <<"Rare">>, AgeBin |-> Missing,
      FareBin |-> <<"Low">>] :
        s \in {<<"female">>, <<"male">>, <<"other">>}, e \in {Missing, <<"S">>}}

InitEncode ==
    /\ pc = "featured"
    /\ df = EmptyDataset
    /\ IdleClean /\ IdleIO /\ IdleFeatures
    /\ \E n \in 0..MaxTrainRows : \E r \in [1..n -> TrainRows] :
          train = [cols |-> categorical_cols, rows |-> r]
    /\ \E n \in 0..MaxTestRows : \E r \in [1..n -> TestRows] :
          test = [cols |-> categorical_cols, rows |-> r]
    /\ encoded = NoEncoding

\* train, test, encoders = encode_features(train, test)
EncodeFeatures ==
    /\ pc = "featured"
    /\ encoded' = encode_features(train, test)
    /\ pc' = "encoded"
    /\ UNCHANGED <<df, train, test, cleanVars, ioVars, featureVars>>

NextEncode == EncodeFeatures

SpecEncode == InitEncode /\ [][NextEncode]_vars

----------------------------------------------------------------------------
(* Data access: the file system, load_data and save_data *)

\* RAW_DATA_DIR, PROCESSED_DATA_DIR, SUBMISSION_DATA_DIR
Kinds == {"raw", "processed", "submission"}

\* data_type of save_data: Literal["processed", "submission"]
SaveKinds == {"processed", "submission"}

FileNames == {"train.csv"}

NumericCols == {"Age", "Fare", "SibSp", "Parch"}

Numbers == 0..99

\* A file's content is its sequence of lines, a line its sequence of fields.
\* Path.stat().st_size: every field's characters, and one separator or line
\* terminator after each field.
RECURSIVE SumLen(_)
SumLen(fields) ==
    IF fields = <<>> THEN 0 ELSE Len(Head(fields)) + 1 + SumLen(Tail(fields))

RECURSIVE st_size(_)
st_size(content) ==
    IF content = <<>> THEN 0 ELSE SumLen(Head(content)) + st_size(Tail(content))

\* csv.writer: a row that is one empty field is written quoted, so that it
\* is not a blank line.
write_row(fields) == IF fields = <<"">> THEN <<"\"\"">> ELSE fields

\* The text of a cell: nothing for a missing one; a number of a column with
\* missing cells is a float.
format(d, i, n) ==
    LET cell == d.rows[i][n]
    IN  IF isna(cell) THEN ""
        ELSE IF n \in NumericCols
             THEN IF \E j \in DOMAIN d.rows : isna(d.rows[j][n])
                  THEN ToString(cell[1]) \o ".0" ELSE ToString(cell[1])
             ELSE cell[1]

\* DataFrame.to_csv(path, index=False)
\* Variant: to_csv(header=False).
to_csvNoHeader(d) ==
    [i \in DOMAIN d.rows |->
        write_row([k \in DOMAIN d.cols |-> format(d, i, d.cols[k])])]

to_csv(d) ==
    <<write_row(d.cols)>> \o
    [i \in DOMAIN d.rows |->
        write_row([k \in DOMAIN d.cols |-> format(d, i, d.cols[k])])]

IsNumber(t) == \E n \in Numbers : t = ToString(n) \/ t = ToString(n) \o ".0"

NumberOf(t) == CHOOSE n \in Numbers : t = ToString(n) \/ t = ToString(n) \o ".0"

\* pd.read_csv(path): the first line names the columns, blank lines are
\* skipped, an empty field is missing, and a column whose fields are all
\* numbers or empty is numeric.
read_csv(content) ==
    LET names == content[1]
        body == SelectSeq(Tail(content), LAMBDA l : l # <<"">>)
        text(i, k) == IF body[i][k] = "\"\"" THEN "" ELSE body[i][k]
        numeric(k) == \A i \in DOMAIN body : text(i, k) = "" \/ IsNumber(text(i, k))
        at(n) == CHOOSE k \in DOMAIN names : names[k] = n
        parse(i, k) == IF text(i, k) = "" THEN Missing
                       ELSE IF numeric(k) THEN <<NumberOf(text(i, k))>>
                       ELSE <<text(i, k)>>
    IN  [cols |-> names,
         rows |-> [i \in DOMAIN body |-> [n \in Range(names) |-> parse(i, at(n))]]]

\* _validate_csv_file(file_path): the first failing check raises.
\* Variant: the file is looked for before its directory.
_validate_csv_fileFirst(ds, fs, file_path) ==
    IF file_path \notin DOMAIN fs
    THEN [err |-> "FileNotFoundError", where |-> "file"]
    ELSE IF file_path[1] \notin ds
    THEN [err |-> "FileNotFoundError", where |-> "directory"]
    ELSE IF st_size(fs[file_path]) = 0
    THEN [err |-> "ValueError", where |-> "empty"]
    ELSE [err |-> "none", where |-> ""]

_validate_csv_file(ds, fs, file_path) ==
    IF file_path[1] \notin ds
    THEN [err |-> "FileNotFoundError", where |-> "directory"]
    ELSE IF file_path \notin DOMAIN fs
    THEN [err |-> "FileNotFoundError", where |-> "file"]
    ELSE IF st_size(fs[file_path]) = 0
    THEN [err |-> "ValueError", where |-> "empty"]
    ELSE [err |-> "none", where |-> ""]

\* load_data(file_name, data_type): what is raised, or the dataset returned.
load_data(ds, fs, file_name, data_type) ==
    LET data_dir == IF data_type = "raw" THEN "raw" ELSE "processed"
        file_path == <<data_dir, file_name>>
        checked == _validate_csv_file(ds, fs, file_path)
    IN  IF checked.err # "none"
        THEN [err |-> checked.err, where |-> checked.where, df |-> EmptyDataset]
        ELSE [err |-> "none", where |-> "", df |-> read_csv(fs[file_path])]

\* DataFrame.empty: no rows or no columns.
empty(d) == Len(d.rows) = 0 \/ Len(d.cols) = 0

\* save_data(df, file_name, data_type): what is raised, and the directories
\* and files afterwards.
\* Variant: the directory is created before the emptiness test.
save_dataMkdirFirst(ds, fs, d, file_name, data_type) ==
    LET data_dir == IF data_type = "processed" THEN "processed" ELSE "submission"
        file_path == <<data_dir, file_name>>
    IN  IF empty(d)
        THEN [err |-> "ValueError", dirs |-> ds \cup {data_dir}, files |-> fs]
        ELSE [err |-> "none",
              dirs |-> ds \cup {data_dir},
              files |-> [p \in DOMAIN fs \cup {file_path} |->
                            IF p = file_path THEN to_csv(d) ELSE fs[p]]]

save_data(ds, fs, d, file_name, data_type) ==
    LET data_dir == IF data_type = "processed" THEN "processed" ELSE "submission"
        file_path == <<data_dir, file_name>>
    IN  IF empty(d)
        THEN [err |-> "ValueError", dirs |-> ds, files |-> fs]
        ELSE [err |-> "none",
              dirs |-> ds \cup {data_dir},            \* mkdir(parents, exist_ok)
              files |-> [p \in DOMAIN fs \cup {file_path} |->
                            IF p = file_path THEN to_csv(d) ELSE fs[p]]]

\* The datasets handed to save_data.
SaveCols == {<<"Age">>, <<"Age", "Embarked">>}

SaveRows(c) ==
    CASE c = <<"Age">> -> {[Age |-> a] : a \in {Missing, <<22>>}}
      [] OTHER -> {[Age |-> Missing, Embarked |-> <<"S">>]}

\* A file the pipeline did not write: the raw data as downloaded.
RawSample ==
    [cols |-> <<"Age", "Embarked">>,
     rows |-> <<[Age |-> Missing, Embarked |-> <<"S">>]>>]

\* Any directories may exist; a file of an existing directory may be absent,
\* of zero length, or hold CSV text.
InitIO ==
    /\ pc = "io"
    /\ df = EmptyDataset
    /\ IdleClean /\ IdleFeatures /\ IdleEncode
    /\ dirs \in SUBSET Kinds
    /\ \E present \in SUBSET (dirs \X FileNames) :
          files \in [present -> {<<>>, to_csv(RawSample)}]
    /\ last = NoCall

LoadData(file_name, data_type) ==
    /\ pc = "io"
    /\ LET r == load_data(dirs, files, file_name, data_type)
       IN  last' = [op |-> "load", file_name |-> file_name, data_type |-> data_type,
                    df |-> r.df, err |-> r.err, where |-> r.where, made_dir |-> FALSE]
    /\ UNCHANGED <<pc, df, cleanVars, dirs, files, featureVars, encodeVars>>

SaveData(d, file_name, data_type) ==
    /\ pc = "io"
    /\ LET r == save_data(dirs, files, d, file_name, data_type)
       IN  /\ dirs' = r.dirs
           /\ files' = r.files
           /\ last' = [op |-> "save", file_name |-> file_name, data_type |-> data_type,
                       df |-> d, err |-> r.err, where |-> "",
                       made_dir |-> r.dirs # dirs]
    /\ UNCHANGED <<pc, df, cleanVars, featureVars, encodeVars>>

NextIO ==
    \/ \E f \in FileNames, k \in Kinds : LoadData(f, k)
    \/ \E f \in FileNames, k \in SaveKinds, c \in SaveCols, n \in 0..MaxSaveRows :
          \E r \in [1..n -> SaveRows(c)] : SaveData([cols |-> c, rows |-> r], f, k)

SpecIO == InitIO /\ [][NextIO]_vars

----------------------------------------------------------------------------
(* generate_features *)

\* A Name is its sequence of characters.
Letters ==
    {"A", "B", "C", "D", "E", "F", "G", "H", "I", "J", "K", "L", "M", "N", "O",
     "P", "Q", "R", "S", "T", "U", "V", "W", "X", "Y", "Z",
     "a", "b", "c", "d", "e", "f", "g", "h", "i", "j", "k", "l", "m", "n", "o",
     "p", "q", "r", "s", "t", "u", "v", "w", "x", "y", "z"}

RECURSIVE Concat(_)
Concat(cs) == IF cs = <<>> THEN "" ELSE Head(cs) \o Concat(Tail(cs))

\* Series.str.extract(r" ([A-Za-z]+)\.", expand=False): the letters of the
\* first place where a space, a run of letters and a dot follow one another;
\* missing when there is no such place.
extract(name) ==
    LET runEnd(i) == Max({j \in i..Len(name) : \A k \in (i + 1)..j : name[k] \in Letters})
        matches == {i \in DOMAIN name :
                       /\ name[i] = " "
                       /\ runEnd(i) > i
                       /\ runEnd(i) < Len(name)
                       /\ name[runEnd(i) + 1] = "."}
    IN  IF matches = {} THEN Missing
        ELSE <<Concat(SubSeq(name, Min(matches) + 1, runEnd(Min(matches))))>>

rare_titles ==
    {"Lady", "Countess", "Capt", "Col", "Don", "Dr", "Major", "Rev", "Sir",
     "Jonkheer", "Dona"}

\* _group_titles(titles), for one title
_group_titles(title) ==
    IF isna(title) THEN title
    ELSE IF title[1] \in rare_titles THEN <<"Rare">>
    ELSE IF title[1] \in {"Mlle", "Ms"} THEN <<"Miss">>
    ELSE IF title[1] = "Mme" THEN <<"Mrs">>
    ELSE title

\* pd.cut(Age, bins=[0, 12, 18, 35, 60, 100], labels=[...]): right-closed
\* intervals; an age outside them, or a missing age, has no bin.
cut(age) ==
    IF isna(age) \/ age[1] <= 0 \/ age[1] > 100 THEN Missing
    ELSE IF age[1] <= 12 THEN <<"Child">>
    ELSE IF age[1] <= 18 THEN <<"Teenager">>
    ELSE IF age[1] <= 35 THEN <<"Adult">>
    ELSE IF age[1] <= 60 THEN <<"Middle">>
    ELSE <<"Senior">>

\* The probabilities of np.quantile are k / Quarters, k = 0..4; a quantile is
\* held as Quarters times its value, which is an integer.
Quarters == 4

\* np.quantile(df["Fare"], k / 4), linear interpolation between the two
\* order statistics around position k (n - 1) / 4; NaN when a fare is missing.
quantile(rows, k) ==
    LET s == SortInts(dropna(rows, "Fare"))
        n == Len(s)
        pos == k * (n - 1)
        lo == pos \div Quarters + 1
        hi == IF lo < n THEN lo + 1 ELSE lo
    IN  IF n < Len(rows) THEN Missing
        ELSE <<Quarters * s[lo] + (pos % Quarters) * (s[hi] - s[lo])>>

\* fare <= q, which is false when either is NaN
le(fare, q) == ~isna(fare) /\ ~isna(q) /\ Quarters * fare[1] <= q[1]

\* fare_to_bin(fare), with q[k] the k-th quartile
fare_to_bin(fare, q) ==
    IF le(fare, q[1]) THEN <<"Low">>
    ELSE IF le(fare, q[2]) THEN <<"Medium">>
    ELSE IF le(fare, q[3]) THEN <<"High">>
    ELSE <<"Very High">>

\* generate_features(df), for a df of at least one row
generate_features(d) ==
    LET q == [k \in 0..4 |-> quantile(d.rows, k)]
        FamilySize(r) == r.SibSp[1] + r.Parch[1] + 1
        new(r) ==
            [n \in Range(d.cols) \cup {"FamilySize", "IsAlone", "Title", "AgeBin", "FareBin"} |->
                CASE n = "FamilySize" -> <<FamilySize(r)>>
                  [] n = "IsAlone" -> IF FamilySize(r) = 1 THEN <<1>> ELSE <<0>>
                  [] n = "Title" -> _group_titles(extract(r.Name))
                  [] n = "AgeBin" -> cut(r.Age)
                  [] n = "FareBin" -> fare_to_bin(r.Fare, q)
                  [] OTHER -> r[n]]
    IN  [err |-> "none",
         df |-> [cols |-> d.cols \o <<"FamilySize", "IsAlone", "Title", "AgeBin", "FareBin">>,
                 rows |-> [i \in DOMAIN d.rows |-> new(d.rows[i])]]]

\* The datasets generate_features is run on: a few passengers, any fares.
Braund == <<"B", "r", "a", "u", "n", "d", ",", " ", "M", "r", ".", " ", "O", "w", "e", "n">>
Ayoub == <<"A", "y", "o", "u", "b", ",", " ", "D", "r", ".", " ", "A", "l">>
Sagesser == <<"S", "a", "g", "e", "s", "s", "e", "r", ",", " ", "M", "l", "l", "e", ".", " ", "E", "m", "m", "a">>
Anonymous == <<"A", "n", "o", "n", "y", "m", "o", "u", "s">>

FeatureFares == {Missing, <<1>>, <<2>>, <<4>>}

FeatureRows ==
    {[SibSp |-> <<1>>, Parch |-> <<0>>, Name |-> Braund, Age |-> <<22>>, Fare |-> f] :
        f \in FeatureFares}
    \cup
    {[SibSp |-> <<0>>, Parch |-> <<0>>, Name |-> Ayoub, Age |-> Missing, Fare |-> f] :
        f \in FeatureFares}
    \cup
    {[SibSp |-> <<0>>, Parch |-> <<2>>, Name |-> Sagesser, Age |-> <<10>>, Fare |-> f] :
        f \in FeatureFares}
    \cup
    {[SibSp |-> <<0>>, Parch |-> <<0>>, Name |-> Anonymous, Age |-> <<70>>, Fare |-> f] :
        f \in FeatureFares}

InitFeatures ==
    /\ pc = "cleaned"
    /\ IdleClean /\ IdleIO /\ IdleEncode
    /\ \E n \in 1..MaxFareRows : \E r \in [1..n -> FeatureRows] :
          df = [cols |-> <<"SibSp", "Parch", "Name", "Age", "Fare">>, rows |-> r]
    /\ featured = NoResult

\* df = generate_features(df)
GenerateFeatures ==
    /\ pc = "cleaned"
    /\ featured' = generate_features(df)
    /\ pc' = "featured"
    /\ UNCHANGED <<df, cleanVars, ioVars, encodeVars>>

NextFeatures == GenerateFeatures

SpecFeatures == InitFeatures /\ [][NextFeatures]_vars

----------------------------------------------------------------------------
(* Properties of load_data and save_data *)

\* The directory the specification gives each kind.
DirectoryOf(kind) == kind

TargetOf(call) == <<DirectoryOf(call.data_type), call.file_name>>

SameShape(a, b) == Len(a.rows) = Len(b.rows) /\ Range(a.cols) = Range(b.cols)

C6_EmptySaveLeavesFilesAlone ==
    [][(last'.op = "save" /\ Len(last'.df.rows) = 0) =>
          (last'.err = "ValueError" /\ dirs' = dirs /\ files' = files)]_vars

\* C6 witness: a refused save of no rows whose directory does not exist.
C6_Witness ==
    /\ last.op = "save"
    /\ Len(last.df.rows) = 0
    /\ last.err = "ValueError"
    /\ DirectoryOf(last.data_type) \notin dirs

\* C7 as claimed: save_data of a dataset with at least one row, as processed
\* or submission, succeeds, its directory exists afterwards, and load_data of
\* the same name and kind returns a dataset with as many rows and the same
\* columns.
C7_SaveThenLoadAnyKind ==
    (last.op = "save" /\ Len(last.df.rows) >= 1) =>
        /\ last.err = "none"
        /\ DirectoryOf(last.data_type) \in dirs
        /\ LET r == load_data(dirs, files, last.file_name, last.data_type)
           IN  r.err = "none" /\ SameShape(r.df, last.df)

\* C7 amended: save_data of a dataset with at least one row and one column
\* succeeds, its directory exists afterwards and the file written parses to a
\* dataset with as many rows and the same columns; load_data returns it when
\* the kind is processed.
C7_SaveThenLoadProcessed ==
    (last.op = "save" /\ Len(last.df.rows) >= 1 /\ Len(last.df.cols) >= 1) =>
        /\ last.err = "none"
        /\ DirectoryOf(last.data_type) \in dirs
        /\ TargetOf(last) \in DOMAIN files
        /\ SameShape(read_csv(files[TargetOf(last)]), last.df)
        /\ last.data_type = "processed" =>
              LET r == load_data(dirs, files, last.file_name, "processed")
              IN  r.err = "none" /\ SameShape(r.df, last.df)

\* C7 witness: a one-column dataset with a missing cell saved as processed
\* into a directory that did not exist.
C7_Witness ==
    /\ last.op = "save"
    /\ last.data_type = "processed"
    /\ last.err = "none"
    /\ last.made_dir
    /\ last.df.cols = <<"Age">>
    /\ \E i \in DOMAIN last.df.rows : isna(last.df.rows[i].Age)

----------------------------------------------------------------------------
(* Properties of clean_data *)

Imputed == {"Age", "Embarked", "Fare"}

HasDuplicates(rows) == \E i, j \in DOMAIN rows : i # j /\ rows[i] = rows[j]

HasValue(rows, c) == \E i \in DOMAIN rows : ~isna(rows[i][c])

\* The rows of df that are the first of their kind, and the position each
\* takes among them.
FirstOccurrences == {i \in DOMAIN df.rows : \A j \in 1..(i - 1) : df.rows[j] # df.rows[i]}

PositionOf(i) == Cardinality({j \in FirstOccurrences : j <= i})

\* How many distinct rows of df carry Embarked value x.
EmbarkedCount(x) == Cardinality({r \in Range(df.rows) : r.Embarked = <<x>>})

EmbarkedPresent == {r.Embarked[1] : r \in {q \in Range(df.rows) : ~isna(q.Embarked)}}

MostFrequentEmbarked == {x \in EmbarkedPresent : \A y \in EmbarkedPresent : EmbarkedCount(x) >= EmbarkedCount(y)}

FirstSeenAt(x) == Min({i \in DOMAIN df.rows : df.rows[i].Embarked = <<x>>})

\* Every row of df whose Embarked is missing holds x after cleaning.
EmbarkedFilledWith(x) ==
    \A i \in FirstOccurrences :
        isna(df.rows[i].Embarked) => cleaned.df.rows[PositionOf(i)].Embarked = <<x>>

\* C3: clean_data applied to its own output succeeds and returns that output
\* unchanged: same rows, same order, same columns, same values.
C3_CleanIsIdempotent ==
    pc = "recleaned" => recleaned = cleaned

\* C4: when the input holds duplicate rows, no two rows of the output of
\* clean_data are equal on all columns, and the output has at most as many
\* rows as the input.
C4_NoDuplicateRowsInOutput ==
    (pc # "loaded" /\ cleaned.err = "none" /\ HasDuplicates(df.rows)) =>
        /\ ~HasDuplicates(cleaned.df.rows)
        /\ Len(cleaned.df.rows) <= Len(df.rows)

\* C8: when Age, Embarked and Fare each have a value somewhere in the input,
\* clean_data succeeds, its output has no missing Age, Embarked or Fare and no
\* Cabin column, and every output row is an input row changed only in
\* imputed cells that were missing.
C8_ImputedColumnsComplete ==
    (pc # "loaded" /\ \A c \in Imputed : HasValue(df.rows, c)) =>
        /\ cleaned.err = "none"
        /\ \A i \in DOMAIN cleaned.df.rows : \A c \in Imputed : ~isna(cleaned.df.rows[i][c])
        /\ "Cabin" \notin Range(cleaned.df.cols)
        /\ Range(cleaned.df.cols) = Range(df.cols) \ {"Cabin"}
        /\ \A i \in DOMAIN cleaned.df.rows : \E j \in DOMAIN df.rows :
              \A c \in Range(cleaned.df.cols) :
                  \/ cleaned.df.rows[i][c] = df.rows[j][c]
                  \/ c \in Imputed /\ isna(df.rows[j][c])

\* C8 witness: a cleaned dataset whose input had missing Age, Fare and
\* Ticket cells, and one whose input had a Cabin column.
C8_Witness ==
    /\ pc = "cleaned"
    /\ \A c \in Imputed : HasValue(df.rows, c)
    /\ "Ticket" \in Range(df.cols)
    /\ \E i \in DOMAIN df.rows : isna(df.rows[i].Age) /\ isna(df.rows[i].Ticket)
    /\ \E i \in DOMAIN df.rows : isna(df.rows[i].Fare)
    /\ \E i \in DOMAIN df.rows : isna(df.rows[i].Embarked)

\* C10 as claimed: the missing Embarked cells are filled with the most
\* frequent Embarked value of the deduplicated rows, and among tied values
\* with the one met first in row order.
C10_TieGoesToFirstEncountered ==
    (pc # "loaded" /\ cleaned.err = "none") =>
        \E x \in MostFrequentEmbarked :
            /\ \A y \in MostFrequentEmbarked : FirstSeenAt(x) <= FirstSeenAt(y)
            /\ EmbarkedFilledWith(x)

\* C10 amended: the missing Embarked cells are filled with the most frequent
\* Embarked value of the deduplicated rows, and among tied values with the
\* one that sorts first.
C10_TieGoesToSmallest ==
    (pc # "loaded" /\ HasValue(df.rows, "Embarked")) =>
        /\ cleaned.err = "none"
        /\ \E x \in MostFrequentEmbarked :
            /\ \A y \in MostFrequentEmbarked : StrRank(x) <= StrRank(y)
            /\ EmbarkedFilledWith(x)

\* C10 witness: a tie between S (met first) and C, and a missing cell filled.
C10_Witness ==
    /\ pc = "cleaned"
    /\ cleaned.err = "none"
    /\ MostFrequentEmbarked = {"C", "S"}
    /\ FirstSeenAt("S") < FirstSeenAt("C")
    /\ \E i \in DOMAIN df.rows : isna(df.rows[i].Embarked)

----------------------------------------------------------------------------
(* Properties of generate_features *)

\* fare > q, which is false when either is NaN
gt(fare, q) == ~isna(fare) /\ ~isna(q) /\ Quarters * fare[1] > q[1]

\* C9: with q25, q50, q75 the quartiles of the input's own Fare column, a
\* row's FareBin is Low exactly when fare <= q25, Medium exactly when
\* q25 < fare <= q50, High exactly when q50 < fare <= q75, and Very High
\* exactly when fare > q75.
C9_FareBinFollowsQuartiles ==
    pc = "featured" =>
        LET q25 == quantile(df.rows, 1)
            q50 == quantile(df.rows, 2)
            q75 == quantile(df.rows, 3)
        IN  \A i \in DOMAIN df.rows :
                LET fare == df.rows[i].Fare
                    bin == featured.df.rows[i].FareBin
                IN  /\ bin = <<"Low">> <=> le(fare, q25)
                    /\ bin = <<"Medium">> <=> (gt(fare, q25) /\ le(fare, q50))
                    /\ bin = <<"High">> <=> (gt(fare, q50) /\ le(fare, q75))
                    /\ bin = <<"Very High">> <=> gt(fare, q75)

----------------------------------------------------------------------------
(* Properties of encode_features *)

Columns == Range(categorical_cols)

TrainStrings(c) == {astype_str(train.rows[j][c]) : j \in DOMAIN train.rows}

\* Every test value is encoded without error: one unseen in training like the
\* training value that sorts first, which has code 0, and one seen in
\* training like that value in the encoded training dataset.
TestValuesEncoded ==
    \A c \in Columns : \A i \in DOMAIN test.rows :
        LET x == astype_str(test.rows[i][c])
        IN  /\ encoded.err = "none"
            /\ x \notin TrainStrings(c) =>
                  /\ encoded.test.rows[i][c] = <<0>>
                  /\ \E j \in DOMAIN train.rows :
                        /\ \A y \in TrainStrings(c) :
                              StrRank(astype_str(train.rows[j][c])) <= StrRank(y)
                        /\ encoded.train.rows[j][c] = encoded.test.rows[i][c]
            /\ x \in TrainStrings(c) =>
                  \A j \in DOMAIN train.rows :
                      astype_str(train.rows[j][c]) = x =>
                          encoded.train.rows[j][c] = encoded.test.rows[i][c]

\* C1 as claimed: for every train and test dataset, every test value is
\* encoded without error, an unseen one like the first training category
\* (code 0) and a seen one like in the encoded training dataset.
C1_UnseenFallsBackToFirst ==
    pc = "encoded" => TestValuesEncoded

\* C1 amended: the same, for every training dataset of at least one row.
C1_UnseenFallsBackToFirstOfSome ==
    (pc = "encoded" /\ Len(train.rows) >= 1) => TestValuesEncoded

\* C1 witness: training has female and male, the test dataset has other.
C1_Witness ==
    /\ pc = "encoded"
    /\ encoded.err = "none"
    /\ TrainStrings("Sex") = {"female", "male"}
    /\ \E i \in DOMAIN test.rows :
          /\ test.rows[i].Sex = <<"other">>
          /\ encoded.test.rows[i].Sex = <<0>>
    /\ \E i \in DOMAIN test.rows : test.rows[i].Sex = <<"male">>

\* C2: when encode_features returns, every cell of an encoded column of both
\* datasets is a code from 0 up to, and not including, the number of distinct
\* strings of that column in the training dataset.
C2_CodesInRange ==
    (pc = "encoded" /\ encoded.err = "none") =>
        \A c \in Columns :
            LET N == Cardinality(TrainStrings(c))
            IN  /\ \A i \in DOMAIN encoded.train.rows :
                      encoded.train.rows[i][c][1] \in 0..(N - 1)
                /\ \A i \in DOMAIN encoded.test.rows :
                      encoded.test.rows[i][c][1] \in 0..(N - 1)
                /\ Len(encoded.train.rows) = Len(train.rows)
                /\ Len(encoded.test.rows) = Len(test.rows)

\* C2 witness: an encoding of a test dataset with a missing and an unseen
\* value.
C2_Witness ==
    /\ pc = "encoded"
    /\ encoded.err = "none"
    /\ Cardinality(TrainStrings("Embarked")) = 2
    /\ \E i \in DOMAIN test.rows :
          isna(test.rows[i].Embarked) /\ astype_str(test.rows[i].Sex) \notin TrainStrings("Sex")

====
